---- MODULE Spec2Model ----
(***************************************************************************)
(* The incremental transaction sync of the repository, in its two          *)
(* implementations:                                                        *)
(*   "sync"  : syncConnection of src/src/sync.ts, triggered by             *)
(*             POST /connections/:id/sync of src/src/plaid.ts;             *)
(*   "route" : POST /transactions/sync of src/unnamed/part_009;            *)
(* and the per-account transaction sync of financial-ai-app,               *)
(*   "app"   : POST /api/transactions/sync of                              *)
(*             src/financial-ai-app/backend/routes/transactions.js.        *)
(* Every await of the handlers is a step of its own, so that concurrent    *)
(* requests interleave exactly where the Node event loop lets them.        *)
(***************************************************************************)
EXTENDS Integers, Sequences, FiniteSets, TLC

\* Bounds of the model.
MaxPages == 2      \* pages in a connection's change stream

\* `let cursor: string | null = null` : no cursor, sync from the beginning.
\* The provider's cursor after page k of the stream is the number k.
None == 0
\* `resp.data.next_cursor` undefined: the answer carries no cursor.
Undefined == -1

Engines == {"sync", "route"}           \* the two cursor-based sync engines
Impls == Engines \cup {"app"}
Items == <<"c1">>                      \* the Connection / Item rows of a user
ItemsOfUser == <<"c1", "c2">>          \* ... of a user with two linked institutions
Runs  == {1, 2}       \* two requests: one can arrive while the other is in flight
TxIds == {"t1", "t2", "t3"}            \* t1, t2 of connection c1, t3 of c2
ProviderAccounts == <<"a1", "a2">>     \* accountsResp.data.accounts of c1
\* plaid.accountsGet({access_token}): the accounts of connection c.
ProviderAccountsOf(c) == IF c = "c1" THEN ProviderAccounts ELSE <<"a3">>
\* An id that no Connection row has.
UnknownId == "c0"

\* `iso_currency_code: null` : a transaction in an unofficial currency.
Null == "null"
\* A transaction as the provider delivers it: 12.50 in an official currency.
Entry(id, pending) ==
  [id |-> id, pending |-> pending, amount |-> 1250, iso_currency_code |-> "USD"]

\* The pages the provider can deliver: the pages of the end-to-end scenario
\* and one page for each precedence case.
PageAdd12    == [added |-> <<Entry("t1", TRUE), Entry("t2", TRUE)>>,
                 modified |-> <<>>, removed |-> <<>>]
PageMod2Rem1 == [added |-> <<>>, modified |-> <<Entry("t2", FALSE)>>,
                 removed |-> <<"t1">>]
PageAddRem   == [added |-> <<Entry("t1", TRUE)>>, modified |-> <<>>,
                 removed |-> <<"t1">>]
PageModRem   == [added |-> <<>>, modified |-> <<Entry("t1", FALSE)>>,
                 removed |-> <<"t1">>]
PageAddMod   == [added |-> <<Entry("t1", TRUE)>>,
                 modified |-> <<Entry("t1", FALSE)>>, removed |-> <<>>]
PageRem1     == [added |-> <<>>, modified |-> <<>>, removed |-> <<"t1">>]
Pages == {PageAdd12, PageMod2Rem1, PageAddRem, PageModRem, PageAddMod, PageRem1}
EmptyPage == [added |-> <<>>, modified |-> <<>>, removed |-> <<>>]
Feeds == UNION {[1..n -> Pages] : n \in 1..MaxPages}
\* The change stream of the second connection: one page, one new transaction.
\* Its amount is a credit in an unofficial currency.
PageAdd3 ==
  [added |-> <<[Entry("t3", TRUE) EXCEPT !.amount = -500,
                                         !.iso_currency_code = Null]>>,
   modified |-> <<>>, removed |-> <<>>]
FeedC2 == <<PageAdd3>>

VARIABLES
  impl,         \* which implementation is deployed
  items,        \* the Connection / Item rows, in the order findMany returns them
  feed,         \* feed[c]: the provider's change stream of connection c
  store,        \* the Transaction table: a set of rows
  accounts,     \* the Account table: external account ids with a row
  cursorStore,  \* SyncCursor.cursor / Item.transactionsCursor per connection
  pc,           \* pc[r]: the await at which invocation r is suspended
  conn,         \* conn[r]: the connection (item) invocation r works on
  cur,          \* cur[r]: the local variable `cursor`
  idx,          \* idx[r]: the next operation of the page (or account) being applied
  err,          \* err[r]: the error that ended invocation r
  todo,         \* todo[r]: the items the handler's loop has still to finish
  snap,         \* snap[r]: the cursors the handler read with its items
  pre,          \* history: the store when r fetched the page it is applying
  pagesDone,    \* history: pages r has applied completely
  applied,      \* history: applied[c], the next_cursors of completely applied pages
  lastDone,     \* history: the last completed page application
  reapply,      \* history: r is applying the page of lastDone to the store it left
  inPage,       \* history: r has fetched a page and not applied all of it
  from,         \* history: the cursor r started its loop from
  acctErr,      \* history: the error the account refresh of r has just caught
  retry,        \* history: r arrived after a run had failed, with no run in flight
  bare,         \* the provider's answer at the end of a stream has no next_cursor
  cancel,       \* history: the caller of r cancelled while r awaits its fetch
  results       \* results[r]: what the handler answers with: syncResults of the
                \* per-account sync, the counts of part_009 (none with a 400)

vars == <<results, bare, cancel, impl, items, feed, store, accounts, cursorStore, pc, conn, cur, idx, err,
          todo, snap, pre, pagesDone, applied, lastDone, reapply, inPage, from,
          acctErr, retry>>

\* ------------------------------------------------------------------
\* The provider (Plaid) and the storage operations (Prisma).

\* plaid.transactionsSync: the page after cursor c, the cursor after that page
\* and whether more pages follow.  At the end of the stream the provider
\* answers an empty page and the cursor it was given, or no cursor at all.
transactionsSync(f, c) ==
  IF c < Len(f)
    THEN [page |-> f[c + 1], next_cursor |-> c + 1, has_more |-> c + 1 < Len(f)]
    ELSE [page |-> EmptyPage, next_cursor |-> IF bare THEN Undefined ELSE c,
          has_more |-> FALSE]

Op(kind, e, ids) == [kind |-> kind, e |-> e, ids |-> ids]
NoEntry == Entry("t1", FALSE)
Range(s) == {s[i] : i \in 1..Len(s)}
Conns == Range(items)
HasRow(s, id) == \E row \in s : row.id = id
Result(ok, s) == [ok |-> ok, store |-> s]

\* `t.account_id`: the provider account a transaction belongs to.
account_id(e) ==
  IF e.id = "t1" THEN "a1" ELSE IF e.id = "t2" THEN "a2" ELSE "a3"

\* Account.id, the primary key of the Account row with external id a.  The
\* creates of the account upserts pass no id: the key is a generated value,
\* never an external account id.
AccountPk(a) == IF a = "a1" THEN "pk1" ELSE IF a = "a2" THEN "pk2" ELSE "pk3"

\* The account reference of a transaction write.
\*   sync.ts:  `accountId: t.account_id` puts the external account id in the
\*             column that Transaction_accountId_fkey REFERENCES "Account" ("id");
\*   part_009: `account: {connect: {plaidAccountId: tx.account_id}}` looks the
\*             Account row up by its external id.
AccountResolves(e) ==
  IF impl = "sync"
    THEN account_id(e) \in {AccountPk(a) : a \in accounts}
    ELSE account_id(e) \in accounts

\* `amount: t.amount, isoCurrencyCode: t.iso_currency_code ?? 'USD'`
\* (part_009: `|| 'USD'`), `pending: Boolean(t.pending)`: the row written for t.
data(t) ==
  [t EXCEPT !.iso_currency_code = IF @ = Null THEN "USD" ELSE @]

\* upsert whose create connects no account.
upsertUnconnected(s, e) ==
  IF HasRow(s, e.id)
    THEN Result(TRUE, {IF row.id = e.id THEN data(e) ELSE row : row \in s})
    ELSE Result(TRUE, s \cup {data(e)})

\* upsert on a table without the unique key on transactionId: always inserts.
upsertWithoutUniqueKey(s, e) ==
  IF AccountResolves(e) THEN Result(TRUE, s \cup {data(e)}) ELSE Result(FALSE, s)

\* prisma.transaction.upsert({where: {transactionId}, update, create}).
\* sync.ts writes accountId in both branches, part_009 in create only.
upsert(s, e) ==
  IF HasRow(s, e.id)
    THEN IF impl = "sync" /\ ~AccountResolves(e)
           THEN Result(FALSE, s)
           ELSE Result(TRUE, {IF row.id = e.id THEN data(e) ELSE row : row \in s})
    ELSE IF AccountResolves(e)
           THEN Result(TRUE, s \cup {data(e)})
           ELSE Result(FALSE, s)

\* prisma.transaction.update({where: {transactionId}, data}): rejects with
\* RecordNotFound when no row has the id; sync.ts writes accountId, too.
update(s, e) ==
  IF ~HasRow(s, e.id) THEN Result(FALSE, s)
  ELSE IF impl = "sync" /\ ~AccountResolves(e) THEN Result(FALSE, s)
  ELSE Result(TRUE, {IF row.id = e.id THEN data(e) ELSE row : row \in s})

\* prisma.transaction.deleteMany({where: {transactionId: {in: ids}}})
deleteMany(s, ids) == Result(TRUE, {row \in s : row.id \notin ids})

ExecOp(s, op) ==
  CASE op.kind = "upsert" -> upsert(s, op.e)
    [] op.kind = "update" -> update(s, op.e)
    [] OTHER              -> deleteMany(s, op.ids)

\* The error with which op rejects on s: Prisma's P2025 for a missing row
\* (update) or a missing account to connect, P2003 for the foreign key.
ErrorOf(s, op) ==
  IF op.kind = "update" /\ ~HasRow(s, op.e.id) THEN "RecordNotFound"
  ELSE IF impl = "sync" THEN "ForeignKeyViolation"
  ELSE "AccountNotFound"

\* sync.ts: the awaited storage calls of one page, in program order.
SyncOps(page) ==
  [i \in 1..Len(page.added) |-> Op("upsert", page.added[i], {})]
  \o [i \in 1..Len(page.modified) |-> Op("update", page.modified[i], {})]
  \o (IF Len(page.removed) # 0
        THEN <<Op("deleteMany", NoEntry, Range(page.removed))>>
        ELSE <<>>)

\* [...delOps, ...addOps, ...modOps]
RouteOpsRemovedFirst(page) ==
  [i \in 1..Len(page.removed) |-> Op("deleteMany", NoEntry, {page.removed[i]})]
  \o [i \in 1..Len(page.added) |-> Op("upsert", page.added[i], {})]
  \o [i \in 1..Len(page.modified) |-> Op("update", page.modified[i], {})]

\* [...modOps, ...addOps, ...delOps]
RouteOpsModifiedFirst(page) ==
  [i \in 1..Len(page.modified) |-> Op("update", page.modified[i], {})]
  \o [i \in 1..Len(page.added) |-> Op("upsert", page.added[i], {})]
  \o [i \in 1..Len(page.removed) |-> Op("deleteMany", NoEntry, {page.removed[i]})]

\* part_009: [...addOps, ...modOps, ...delOps]
RouteOps(page) ==
  [i \in 1..Len(page.added) |-> Op("upsert", page.added[i], {})]
  \o [i \in 1..Len(page.modified) |-> Op("update", page.modified[i], {})]
  \o [i \in 1..Len(page.removed) |-> Op("deleteMany", NoEntry, {page.removed[i]})]

RECURSIVE ExecFrom(_, _, _)
ExecFrom(s, ops, i) ==
  IF i > Len(ops) THEN Result(TRUE, s)
  ELSE LET r == ExecOp(s, ops[i])
       IN  IF r.ok THEN ExecFrom(r.store, ops, i + 1) ELSE Result(FALSE, s)

\* The error of the first operation of ops[i..] that rejects.
RECURSIVE ErrorFrom(_, _, _)
ErrorFrom(s, ops, i) ==
  IF i > Len(ops) THEN "none"
  ELSE LET r == ExecOp(s, ops[i])
       IN  IF r.ok THEN ErrorFrom(r.store, ops, i + 1) ELSE ErrorOf(s, ops[i])

\* The page operations in the order of the deployed implementation.
PageOps(page) == IF impl = "sync" THEN SyncOps(page) ELSE RouteOps(page)

\* The operations one after the other, those before a rejection kept.
TransactionWithoutRollback(s, ops) == ExecFrom(s, ops, 1)

\* prisma.$transaction(ops): every operation or, when one rejects, none.
Transaction(s, ops) ==
  LET r == ExecFrom(s, ops, 1)
  IN  IF r.ok THEN r ELSE Result(FALSE, s)

\* ------------------------------------------------------------------
\* State.

NoPage == [c |-> "-", k |-> -1, store |-> {}]

\* The store after the first k pages of stream f were synced without failure.
RECURSIVE Synced(_, _)
Synced(f, k) ==
  IF k = 0 THEN Result(TRUE, {})
  ELSE LET before == Synced(f, k - 1)
       IN  IF before.ok THEN Transaction(before.store, PageOps(f[k]))
           ELSE before

\* No request has arrived.
NoRequests ==
  /\ pc = [r \in Runs |-> "idle"]
  /\ conn = [r \in Runs |-> Items[1]]
  /\ cur = [r \in Runs |-> None]
  /\ idx = [r \in Runs |-> 0]
  /\ err = [r \in Runs |-> "none"]
  /\ todo = [r \in Runs |-> <<>>]
  /\ snap = [r \in Runs |-> [c \in Conns |-> None]]
  /\ pre = [r \in Runs |-> {}]
  /\ pagesDone = [r \in Runs |-> 0]
  /\ lastDone = NoPage
  /\ reapply = [r \in Runs |-> FALSE]
  /\ inPage = [r \in Runs |-> FALSE]
  /\ from = [r \in Runs |-> None]
  /\ acctErr = [r \in Runs |-> "none"]
  /\ retry = [r \in Runs |-> FALSE]
  /\ results = [r \in Runs |-> <<>>]
  /\ cancel = [r \in Runs |-> FALSE]

\* financial-ai-app keeps no cursor and reads no change stream.
InitApp ==
  /\ impl = "app"
  /\ bare = FALSE
  /\ feed = [c \in Conns |-> <<>>]
  /\ store = {}
  /\ cursorStore = [c \in Conns |-> None]
  /\ applied = [c \in Conns |-> {}]

\* A deployment whose connection has been synced up to some page of its stream;
\* its second account may have been opened after the accounts were last read.
\* A provider that answers without next_cursor is met by a connection that
\* is synced to the end of its stream.
Init ==
  /\ items = Items
  /\ accounts \in {{ProviderAccounts[1]}, Range(ProviderAccounts)}
  /\ \/ /\ impl \in Engines
        /\ feed \in [Conns -> Feeds]
        /\ \E k \in 0..MaxPages :
             /\ k <= Len(feed[Items[1]])
             /\ Synced(feed[Items[1]], k).ok
             /\ store = Synced(feed[Items[1]], k).store
             /\ cursorStore = [c \in Conns |-> k]
             /\ applied = [c \in Conns |-> 1..k]
             /\ bare \in {b \in BOOLEAN : b => k = Len(feed[Items[1]])}
     \/ InitApp
  /\ NoRequests

\* A user with two connections, neither synced yet.
InitAll ==
  /\ items = ItemsOfUser
  /\ accounts \in {{ProviderAccounts[1]} \cup Range(ProviderAccountsOf("c2")),
                    Range(ProviderAccounts) \cup Range(ProviderAccountsOf("c2"))}
  /\ \/ /\ impl \in Engines
        /\ \E p \in Pages :
             feed = [c \in Conns |-> IF c = Items[1] THEN <<p>> ELSE FeedC2]
        /\ store = {}
        /\ cursorStore = [c \in Conns |-> None]
        /\ applied = [c \in Conns |-> {}]
        /\ bare \in BOOLEAN
     \/ InitApp
  /\ NoRequests

Resp(r) == transactionsSync(feed[conn[r]], cur[r])

\* The history variables when r has applied the whole page it fetched.
PageApplied(r, s) ==
  /\ pagesDone' = [pagesDone EXCEPT ![r] = @ + 1]
  /\ applied' = [applied EXCEPT ![conn[r]] =
       @ \cup ({Resp(r).next_cursor} \ {Undefined})]
  /\ lastDone' = [c |-> conn[r], k |-> cur[r], store |-> s]

\* The history variables when r fetches a page, with operations to await or not.
PageFetched(r, open) ==
  /\ pre' = [pre EXCEPT ![r] = store]
  /\ inPage' = [inPage EXCEPT ![r] = open]
  /\ reapply' = [reapply EXCEPT ![r] =
       /\ lastDone.c = conn[r] /\ lastDone.k = cur[r] /\ lastDone.store = store
       /\ \A q \in Runs \ {r} : pc[q] \in {"idle", "done", "failed", "notFound", "answered"}]

\* Requests are numbered in the order in which they arrive.
Arrived(r) == \A q \in Runs : q < r => pc[q] # "idle"

\* The history variable retry when request r arrives.
Retrying(r) ==
  retry' = [retry EXCEPT ![r] =
    /\ \E q \in Runs : pc[q] = "failed"
    /\ \A q \in Runs \ {r} : pc[q] \in {"idle", "done", "failed", "notFound", "answered"}]

\* The rejections of the provider client: 5xx or network, 429, bad credential.
TransientErrors == {"ProviderUnavailable", "ProviderRateLimited"}
ProviderErrors == TransientErrors \cup {"ProviderRejected"}
\* The errors with which the call awaited at p can reject without effect.
FailuresAt(p) ==
  CASE p \in {"accountsGet", "fetch", "getTransactions", "refreshGet",
              "exchange"}                    -> ProviderErrors
    [] p \in {"apply", "transaction"}        -> {"StorageCommitError"}
    [] p \in {"writeCursor", "itemUpdate"}   -> {"CursorPersistError"}
    [] OTHER                                 -> {"StorageError"}
InjectedErrors ==
  ProviderErrors \cup {"StorageCommitError", "CursorPersistError", "StorageError"}

Fail(r, e) ==
  /\ pc' = [pc EXCEPT ![r] = "failed"]
  /\ err' = [err EXCEPT ![r] = e]

\* ------------------------------------------------------------------
\* sync.ts: POST /connections/:id/sync and syncConnection.

\* A request that starts the sync without looking the connection up.
PostConnectionsSyncUnchecked(r, c) ==
  /\ impl = "sync"
  /\ pc[r] = "idle"
  /\ Arrived(r)
  /\ pc' = [pc EXCEPT ![r] = "accountsGet"]
  /\ conn' = [conn EXCEPT ![r] = c]
  /\ todo' = [todo EXCEPT ![r] = <<c>>]
  /\ Retrying(r)
  /\ UNCHANGED <<acctErr, results, impl, bare, cancel, items, feed, store, accounts, cursorStore, cur, idx, err,
                 snap, pre, pagesDone, applied, lastDone, reapply, inPage, from>>

\* The route finds the connection and calls syncConnection, which finds it
\* again; for an id without a row the route answers 404 (and syncConnection,
\* called directly, returns at once).
PostConnectionsSync(r, c) ==
  /\ impl = "sync"
  /\ pc[r] = "idle"
  /\ Arrived(r)
  /\ conn' = [conn EXCEPT ![r] = c]
  /\ IF c \in Conns
       THEN /\ pc' = [pc EXCEPT ![r] = "accountsGet"]
            /\ todo' = [todo EXCEPT ![r] = <<c>>]
       ELSE /\ pc' = [pc EXCEPT ![r] = "notFound"]
            /\ todo' = todo
  /\ Retrying(r)
  /\ UNCHANGED <<acctErr, results, impl, bare, cancel, items, feed, store, accounts, cursorStore, cur, idx, err,
                 snap, pre, pagesDone, applied, lastDone, reapply, inPage, from>>

\* syncAllConnections: prisma.connection.findMany, then syncConnection of each
\* connection in turn, awaited without a try block.
SyncAllConnections(r) ==
  /\ impl = "sync"
  /\ pc[r] = "idle"
  /\ Arrived(r)
  /\ Len(items) > 0
  /\ pc' = [pc EXCEPT ![r] = "accountsGet"]
  /\ conn' = [conn EXCEPT ![r] = items[1]]
  /\ todo' = [todo EXCEPT ![r] = items]
  /\ Retrying(r)
  /\ UNCHANGED <<acctErr, results, impl, bare, cancel, items, feed, store, accounts, cursorStore, cur, idx, err,
                 snap, pre, pagesDone, applied, lastDone, reapply, inPage, from>>

\* 1) Sync accounts: plaid.accountsGet answers.
AccountsGet(r) ==
  /\ impl = "sync"
  /\ pc[r] = "accountsGet"
  /\ pc' = [pc EXCEPT ![r] =
       IF Len(ProviderAccountsOf(conn[r])) = 0 THEN "readCursor"
       ELSE "accountUpsert"]
  /\ idx' = [idx EXCEPT ![r] = 1]
  /\ UNCHANGED <<acctErr, retry, results, impl, bare, cancel, items, feed, store, accounts, cursorStore, conn, cur, err, todo,
                 snap, pre, pagesDone, applied, lastDone, reapply, inPage, from>>

\* An account refresh that replaces the account rows by the upserted one.
AccountUpsertReplacing(r) ==
  /\ impl = "sync"
  /\ pc[r] = "accountUpsert"
  /\ accounts' = {ProviderAccountsOf(conn[r])[idx[r]]}
  /\ IF idx[r] < Len(ProviderAccountsOf(conn[r]))
       THEN /\ idx' = [idx EXCEPT ![r] = @ + 1]
            /\ pc' = pc
       ELSE /\ idx' = [idx EXCEPT ![r] = 0]
            /\ pc' = [pc EXCEPT ![r] = "readCursor"]
  /\ UNCHANGED <<acctErr, retry, results, impl, bare, cancel, items, feed, store, cursorStore, conn, cur, err, todo,
                 snap, pre, pagesDone, applied, lastDone, reapply, inPage, from>>

\* prisma.account.upsert of the next account of the answer.
AccountUpsert(r) ==
  /\ impl = "sync"
  /\ pc[r] = "accountUpsert"
  /\ accounts' = accounts \cup {ProviderAccountsOf(conn[r])[idx[r]]}
  /\ IF idx[r] < Len(ProviderAccountsOf(conn[r]))
       THEN /\ idx' = [idx EXCEPT ![r] = @ + 1]
            /\ pc' = pc
       ELSE /\ idx' = [idx EXCEPT ![r] = 0]
            /\ pc' = [pc EXCEPT ![r] = "readCursor"]
  /\ UNCHANGED <<acctErr, retry, results, impl, bare, cancel, items, feed, store, cursorStore, conn, cur, err, todo,
                 snap, pre, pagesDone, applied, lastDone, reapply, inPage, from>>

\* accountsGet or an account upsert rejects: caught and logged, the sync goes on.
AccountsFail(r) ==
  /\ impl = "sync"
  /\ pc[r] \in {"accountsGet", "accountUpsert"}
  /\ \E e \in FailuresAt(pc[r]) : acctErr' = [acctErr EXCEPT ![r] = e]
  /\ pc' = [pc EXCEPT ![r] = "readCursor"]
  /\ idx' = [idx EXCEPT ![r] = 0]
  /\ UNCHANGED <<retry, results, impl, bare, cancel, items, feed, store, accounts, cursorStore, conn, cur, err, todo,
                 snap, pre, pagesDone, applied, lastDone, reapply, inPage, from>>

\* 2) prisma.syncCursor.findUnique: the cursor the loop starts from.
ReadCursor(r) ==
  /\ impl = "sync"
  /\ pc[r] = "readCursor"
  /\ cur' = [cur EXCEPT ![r] = cursorStore[conn[r]]]
  /\ from' = [from EXCEPT ![r] = cursorStore[conn[r]]]
  /\ pc' = [pc EXCEPT ![r] = "fetch"]
  /\ acctErr' = [acctErr EXCEPT ![r] = "none"]
  /\ UNCHANGED <<retry, results, impl, bare, cancel, items, feed, store, accounts, cursorStore, conn, idx, err, todo,
                 snap, pre, pagesDone, applied, lastDone, reapply, inPage>>

\* A loop that leaves after its first page, whatever has_more says.
SyncPageEndOnce(r, s) ==
  /\ cur' = [cur EXCEPT ![r] =
       IF Resp(r).next_cursor = Undefined THEN None ELSE Resp(r).next_cursor]
  /\ pc' = [pc EXCEPT ![r] = "writeCursor"]
  /\ idx' = [idx EXCEPT ![r] = 0]
  /\ PageApplied(r, s)

\* `cursor = resp.data.next_cursor ?? null; hasMore = resp.data.has_more ?? false`
\* and the loop test: the next await is the next fetch or the cursor write.
SyncPageEnd(r, s) ==
  /\ cur' = [cur EXCEPT ![r] =
       IF Resp(r).next_cursor = Undefined THEN None ELSE Resp(r).next_cursor]
  /\ pc' = [pc EXCEPT ![r] = IF Resp(r).has_more THEN "fetch" ELSE "writeCursor"]
  /\ idx' = [idx EXCEPT ![r] = 0]
  /\ PageApplied(r, s)

\* The fetch that persists the page's next_cursor before the page is applied.
TransactionsSyncSavingCursor(r) ==
  /\ impl = "sync"
  /\ pc[r] = "fetch"
  /\ cancel' = [cancel EXCEPT ![r] = FALSE]
  /\ cursorStore' = [cursorStore EXCEPT ![conn[r]] = Resp(r).next_cursor]
  /\ PageFetched(r, Len(SyncOps(Resp(r).page)) # 0)
  /\ IF Len(SyncOps(Resp(r).page)) = 0
       THEN SyncPageEnd(r, store)
       ELSE /\ pc' = [pc EXCEPT ![r] = "apply"]
            /\ idx' = [idx EXCEPT ![r] = 1]
            /\ UNCHANGED <<cur, pagesDone, applied, lastDone>>
  /\ UNCHANGED <<acctErr, retry, results, impl, bare, items, feed, store, accounts, conn, err, todo, snap, from>>

\* plaid.transactionsSync answers; a page without entries awaits nothing more.
TransactionsSync(r) ==
  /\ impl = "sync"
  /\ pc[r] = "fetch"
  /\ cancel' = [cancel EXCEPT ![r] = FALSE]
  /\ PageFetched(r, Len(SyncOps(Resp(r).page)) # 0)
  /\ IF Len(SyncOps(Resp(r).page)) = 0
       THEN SyncPageEnd(r, store)
       ELSE /\ pc' = [pc EXCEPT ![r] = "apply"]
            /\ idx' = [idx EXCEPT ![r] = 1]
            /\ UNCHANGED <<cur, pagesDone, applied, lastDone>>
  /\ UNCHANGED <<acctErr, retry, results, impl, bare, items, feed, store, accounts, cursorStore, conn, err, todo, snap,
                 from>>

\* The next awaited upsert, update or deleteMany of the page.
ApplyOp(r) ==
  /\ impl = "sync"
  /\ pc[r] = "apply"
  /\ LET ops == SyncOps(Resp(r).page)
         res == ExecOp(store, ops[idx[r]])
     IN  IF ~res.ok
           THEN /\ Fail(r, ErrorOf(store, ops[idx[r]]))
                /\ UNCHANGED <<store, cur, idx, pagesDone, applied, lastDone,
                               inPage>>
           ELSE /\ store' = res.store
                /\ err' = err
                /\ IF idx[r] = Len(ops)
                     THEN /\ SyncPageEnd(r, res.store)
                          /\ inPage' = [inPage EXCEPT ![r] = FALSE]
                     ELSE /\ idx' = [idx EXCEPT ![r] = @ + 1]
                          /\ UNCHANGED <<pc, cur, pagesDone, applied, lastDone,
                                         inPage>>
  /\ UNCHANGED <<acctErr, retry, results, impl, bare, cancel, items, feed, accounts, cursorStore, conn, todo, snap, pre, reapply,
                 from>>

\* prisma.syncCursor.upsert after the loop: syncConnection returns, and the
\* caller answers or goes on to its next connection.
WriteCursor(r) ==
  /\ impl = "sync"
  /\ pc[r] = "writeCursor"
  /\ cursorStore' = [cursorStore EXCEPT ![conn[r]] = cur[r]]
  /\ todo' = [todo EXCEPT ![r] = Tail(@)]
  /\ IF Len(todo[r]) > 1
       THEN /\ conn' = [conn EXCEPT ![r] = todo[r][2]]
            /\ pc' = [pc EXCEPT ![r] = "accountsGet"]
       ELSE /\ pc' = [pc EXCEPT ![r] = "done"]
            /\ conn' = conn
  /\ UNCHANGED <<acctErr, retry, results, impl, bare, cancel, items, feed, store, accounts, cur, idx, err,
                 snap, pre, pagesDone, applied, lastDone, reapply, inPage, from>>

\* An awaited provider or storage call outside the try block rejects without
\* effect: syncConnection rejects.
SyncFails(r) ==
  /\ impl = "sync"
  /\ pc[r] \in {"readCursor", "fetch", "apply", "writeCursor"}
  /\ cancel' = [cancel EXCEPT ![r] = FALSE]
  /\ \E e \in FailuresAt(pc[r]) : Fail(r, e)
  /\ UNCHANGED <<acctErr, retry, results, impl, bare, items, feed, store, accounts, cursorStore, conn, cur, idx, todo,
                 snap, pre, pagesDone, applied, lastDone, reapply, inPage, from>>

\* ------------------------------------------------------------------
\* part_009: POST /transactions/sync.

\* `let addedTotal = 0; let modifiedTotal = 0; let removedTotal = 0`
NoCounts == [added |-> 0, modified |-> 0, removed |-> 0]
\* `addedTotal += added.length; ...` after the page's transaction.
Counted(counts, page) ==
  [added |-> counts.added + Len(page.added),
   modified |-> counts.modified + Len(page.modified),
   removed |-> counts.removed + Len(page.removed)]

\* prisma.item.findMany and the first item of the loop.
PostTransactionsSync(r) ==
  /\ impl = "route"
  /\ pc[r] = "idle"
  /\ Arrived(r)
  /\ Len(items) > 0
  /\ todo' = [todo EXCEPT ![r] = items]
  /\ snap' = [snap EXCEPT ![r] = cursorStore]
  /\ conn' = [conn EXCEPT ![r] = items[1]]
  /\ cur' = [cur EXCEPT ![r] = cursorStore[items[1]]]
  /\ from' = [from EXCEPT ![r] = cursorStore[items[1]]]
  /\ pc' = [pc EXCEPT ![r] = "fetch"]
  /\ results' = [results EXCEPT ![r] = <<NoCounts>>]
  /\ Retrying(r)
  /\ UNCHANGED <<acctErr, impl, bare, cancel, items, feed, store, accounts, cursorStore, idx, err,
                 pre, pagesDone, applied, lastDone, reapply, inPage>>

\* plaidClient.transactionsSync answers.
RouteTransactionsSync(r) ==
  /\ impl = "route"
  /\ pc[r] = "fetch"
  /\ cancel' = [cancel EXCEPT ![r] = FALSE]
  /\ PageFetched(r, TRUE)
  /\ pc' = [pc EXCEPT ![r] = "transaction"]
  /\ UNCHANGED <<acctErr, retry, results, impl, bare, items, feed, store, accounts, cursorStore, conn, cur, idx, err,
                 todo, snap, pagesDone, applied, lastDone, from>>

\* prisma.$transaction([...addOps, ...modOps, ...delOps]), then
\* `cursor = resp.data.next_cursor ?? cursor; hasMore = Boolean(resp.data.has_more)`.
RouteTransaction(r) ==
  /\ impl = "route"
  /\ pc[r] = "transaction"
  /\ LET res == Transaction(store, RouteOps(Resp(r).page))
     IN  IF ~res.ok
           THEN /\ Fail(r, ErrorFrom(store, RouteOps(Resp(r).page), 1))
                /\ store' = res.store
                /\ results' = [results EXCEPT ![r] = <<>>]
                /\ UNCHANGED <<cur, pagesDone, applied, lastDone, inPage>>
           ELSE /\ store' = res.store
                /\ err' = err
                /\ results' = [results EXCEPT ![r] =
                     <<Counted(@[1], Resp(r).page)>>]
                /\ cur' = [cur EXCEPT ![r] =
                     IF Resp(r).next_cursor = Undefined THEN @
                     ELSE Resp(r).next_cursor]
                /\ pc' = [pc EXCEPT ![r] =
                     IF Resp(r).has_more THEN "fetch" ELSE "itemUpdate"]
                /\ PageApplied(r, res.store)
                /\ inPage' = [inPage EXCEPT ![r] = FALSE]
  /\ UNCHANGED <<acctErr, retry, impl, bare, cancel, items, feed, accounts, cursorStore, conn, idx, todo, snap,
                 pre, reapply, from>>

\* prisma.item.update({data: {transactionsCursor: cursor}}), then the next item.
RouteItemUpdate(r) ==
  /\ impl = "route"
  /\ pc[r] = "itemUpdate"
  /\ cursorStore' = [cursorStore EXCEPT ![conn[r]] = cur[r]]
  /\ todo' = [todo EXCEPT ![r] = Tail(@)]
  /\ IF Len(todo[r]) > 1
       THEN /\ conn' = [conn EXCEPT ![r] = todo[r][2]]
            /\ cur' = [cur EXCEPT ![r] = snap[r][todo[r][2]]]
            /\ pc' = [pc EXCEPT ![r] = "fetch"]
       ELSE /\ pc' = [pc EXCEPT ![r] = "done"]
            /\ UNCHANGED <<conn, cur>>
  /\ UNCHANGED <<acctErr, retry, results, impl, bare, cancel, items, feed, store, accounts, idx, err, snap,
                 pre, pagesDone, applied, lastDone, reapply, inPage, from>>

\* An awaited call rejects without effect: the handler's catch answers 400.
RouteFails(r) ==
  /\ impl = "route"
  /\ pc[r] \in {"fetch", "transaction", "itemUpdate"}
  /\ cancel' = [cancel EXCEPT ![r] = FALSE]
  /\ \E e \in FailuresAt(pc[r]) : Fail(r, e)
  /\ results' = [results EXCEPT ![r] = <<>>]
  /\ UNCHANGED <<acctErr, retry, impl, bare, items, feed, store, accounts, cursorStore, conn, cur, idx, todo,
                 snap, pre, pagesDone, applied, lastDone, reapply, inPage, from>>

\* ------------------------------------------------------------------
\* The other routes that write the rows of a connection.

\* plaid.ts: POST /connections/:id/refresh-accounts finds the connection.
PostRefreshAccounts(r, c) ==
  /\ impl = "sync"
  /\ pc[r] = "idle"
  /\ Arrived(r)
  /\ c \in Conns
  /\ pc' = [pc EXCEPT ![r] = "refreshGet"]
  /\ conn' = [conn EXCEPT ![r] = c]
  /\ UNCHANGED <<acctErr, retry, results, impl, bare, cancel, items, feed, store, accounts,
                 cursorStore, cur, idx, err, todo, snap, pre, pagesDone, applied,
                 lastDone, reapply, inPage, from>>

\* plaid.accountsGet answers.
RefreshAccountsGet(r) ==
  /\ impl = "sync"
  /\ pc[r] = "refreshGet"
  /\ pc' = [pc EXCEPT ![r] = "refreshUpsert"]
  /\ idx' = [idx EXCEPT ![r] = 1]
  /\ UNCHANGED <<acctErr, retry, results, impl, bare, cancel, items, feed, store, accounts,
                 cursorStore, conn, cur, err, todo, snap, pre, pagesDone, applied,
                 lastDone, reapply, inPage, from>>

\* prisma.account.upsert of the next account, then `res.json({count})`.
RefreshAccountUpsert(r) ==
  /\ impl = "sync"
  /\ pc[r] = "refreshUpsert"
  /\ accounts' = accounts \cup {ProviderAccountsOf(conn[r])[idx[r]]}
  /\ IF idx[r] < Len(ProviderAccountsOf(conn[r]))
       THEN /\ idx' = [idx EXCEPT ![r] = @ + 1]
            /\ pc' = pc
       ELSE /\ idx' = [idx EXCEPT ![r] = 0]
            /\ pc' = [pc EXCEPT ![r] = "answered"]
  /\ UNCHANGED <<acctErr, retry, results, impl, bare, cancel, items, feed, store,
                 cursorStore, conn, cur, err, todo, snap, pre, pagesDone, applied,
                 lastDone, reapply, inPage, from>>

\* An item upsert that deletes the row and creates it anew.
ItemUpsertRecreating(r) ==
  /\ impl = "route"
  /\ pc[r] = "itemUpsert"
  /\ cursorStore' = [cursorStore EXCEPT ![conn[r]] = None]
  /\ pc' = [pc EXCEPT ![r] = "accountsTransaction"]
  /\ UNCHANGED <<acctErr, retry, results, impl, bare, cancel, items, feed, store, accounts,
                 conn, cur, idx, err, todo, snap, pre, pagesDone, applied,
                 lastDone, reapply, inPage, from>>

\* part_011: POST /plaid/token/exchange for an item the user has linked before;
\* it awaits prisma.user.upsert, itemPublicTokenExchange and accountsGet.
PostTokenExchange(r, c) ==
  /\ impl = "route"
  /\ pc[r] = "idle"
  /\ Arrived(r)
  /\ c \in Conns
  /\ pc' = [pc EXCEPT ![r] = "exchange"]
  /\ conn' = [conn EXCEPT ![r] = c]
  /\ UNCHANGED <<acctErr, retry, results, impl, bare, cancel, items, feed, store, accounts,
                 cursorStore, cur, idx, err, todo, snap, pre, pagesDone, applied,
                 lastDone, reapply, inPage, from>>

\* The provider has answered with the new access token and the accounts.
TokenExchange(r) ==
  /\ impl = "route"
  /\ pc[r] = "exchange"
  /\ pc' = [pc EXCEPT ![r] = "itemUpsert"]
  /\ UNCHANGED <<acctErr, retry, results, impl, bare, cancel, items, feed, store, accounts,
                 cursorStore, conn, cur, idx, err, todo, snap, pre, pagesDone, applied,
                 lastDone, reapply, inPage, from>>

\* prisma.item.upsert({where: {plaidItemId}, update: {accessToken,
\* institutionId, userId}, create}): the row exists, transactionsCursor stays.
ItemUpsert(r) ==
  /\ impl = "route"
  /\ pc[r] = "itemUpsert"
  /\ cursorStore' = cursorStore
  /\ pc' = [pc EXCEPT ![r] = "accountsTransaction"]
  /\ UNCHANGED <<acctErr, retry, results, impl, bare, cancel, items, feed, store, accounts,
                 conn, cur, idx, err, todo, snap, pre, pagesDone, applied,
                 lastDone, reapply, inPage, from>>

\* prisma.$transaction(upserts) of the accounts, then `res.json({ok, itemId})`.
AccountsTransaction(r) ==
  /\ impl = "route"
  /\ pc[r] = "accountsTransaction"
  /\ accounts' = accounts \cup Range(ProviderAccountsOf(conn[r]))
  /\ pc' = [pc EXCEPT ![r] = "answered"]
  /\ UNCHANGED <<acctErr, retry, results, impl, bare, cancel, items, feed, store,
                 cursorStore, conn, cur, idx, err, todo, snap, pre, pagesDone, applied,
                 lastDone, reapply, inPage, from>>

\* An awaited call of one of the two routes rejects: refresh-accounts has no
\* try (the request ends with the rejection), the exchange answers 400.
OtherRouteFails(r) ==
  /\ pc[r] \in {"refreshGet", "refreshUpsert", "exchange", "itemUpsert",
               "accountsTransaction"}
  /\ \E e \in FailuresAt(pc[r]) : err' = [err EXCEPT ![r] = e]
  /\ pc' = [pc EXCEPT ![r] = "answered"]
  /\ UNCHANGED <<acctErr, retry, results, impl, bare, cancel, items, feed, store, accounts,
                 cursorStore, conn, cur, idx, todo, snap, pre, pagesDone, applied,
                 lastDone, reapply, inPage, from>>

\* ------------------------------------------------------------------
\* The caller of a sync request.

\* The caller gives the request up (the connection of the HTTP request closes)
\* between two page fetches: a page is committed, the next fetch is awaited.
\* Neither handler listens: no local changes.
Cancel(r) ==
  /\ impl \in Engines
  /\ pc[r] = "fetch"
  /\ pagesDone[r] > 0
  /\ ~cancel[r]
  /\ cancel' = [cancel EXCEPT ![r] = TRUE]
  /\ UNCHANGED <<results, bare, impl, items, feed, store, accounts, cursorStore,
                 pc, conn, cur, idx, err, todo, snap, pre, pagesDone, applied,
                 lastDone, reapply, inPage, from, acctErr, retry>>

\* ------------------------------------------------------------------
\* financial-ai-app: POST /api/transactions/sync, the per-account sync.

\* plaidService.getTransactions(...).transactions of account a, when it has any.
TransactionsOf(a) == IF a = "a1" THEN <<Entry("t1", TRUE)>> ELSE <<Entry("t2", TRUE)>>

SyncResult(a, e, synced, total) ==
  [accountId |-> a, error |-> e, syncedTransactions |-> synced,
   totalTransactions |-> total]

\* The end of one account's try or catch block: the next account, or res.json.
NextAccount(r, rs) ==
  /\ results' = [results EXCEPT ![r] = rs]
  /\ todo' = [todo EXCEPT ![r] = Tail(@)]
  /\ pc' = [pc EXCEPT ![r] = IF Len(todo[r]) > 1 THEN "getTransactions" ELSE "done"]

\* Account.findAll({where: {userId, isActive: true}}): accountsToSync.
PostSync(r) ==
  /\ impl = "app"
  /\ pc[r] = "idle"
  /\ Arrived(r)
  /\ LET accountsToSync == SelectSeq(ProviderAccounts, LAMBDA a : a \in accounts)
     IN  /\ todo' = [todo EXCEPT ![r] = accountsToSync]
         /\ pc' = [pc EXCEPT ![r] =
              IF Len(accountsToSync) = 0 THEN "done" ELSE "getTransactions"]
  /\ Retrying(r)
  /\ UNCHANGED <<acctErr, results, impl, bare, cancel, items, feed, store, accounts, cursorStore,
                 conn, cur, idx, err, snap, pre, pagesDone, applied, lastDone,
                 reapply, inPage, from>>

\* plaidService.getTransactions answers.  Building transactionData for the first
\* transaction calls this.mapPlaidTransactionType, which the arrow function's
\* `this` (the module's exports object) does not have: the TypeError is caught
\* by the account's catch block before any findOne, update or create.  With no
\* transaction the counts are pushed and account.update is awaited.
GetTransactions(r, txs) ==
  /\ impl = "app"
  /\ pc[r] = "getTransactions"
  /\ txs \in {<<>>, TransactionsOf(todo[r][1])}
  /\ IF Len(txs) > 0
       THEN NextAccount(r, Append(results[r],
                                  SyncResult(todo[r][1], "TypeError", 0, 0)))
       ELSE /\ results' = [results EXCEPT ![r] =
                 Append(@, SyncResult(todo[r][1], "none", 0, Len(txs)))]
            /\ pc' = [pc EXCEPT ![r] = "accountUpdate"]
            /\ todo' = todo
  /\ UNCHANGED <<acctErr, retry, impl, bare, cancel, items, feed, store, accounts, cursorStore,
                 conn, cur, idx, err, snap, pre, pagesDone, applied, lastDone,
                 reapply, inPage, from>>

\* account.update({lastSyncAt: new Date()}).
AccountUpdate(r) ==
  /\ impl = "app"
  /\ pc[r] = "accountUpdate"
  /\ NextAccount(r, results[r])
  /\ UNCHANGED <<acctErr, retry, impl, bare, cancel, items, feed, store, accounts, cursorStore,
                 conn, cur, idx, err, snap, pre, pagesDone, applied, lastDone,
                 reapply, inPage, from>>

\* getTransactions or account.update rejects: the account's catch block pushes
\* an error entry and the loop goes on.
AppFails(r) ==
  /\ impl = "app"
  /\ pc[r] \in {"getTransactions", "accountUpdate"}
  /\ \E e \in FailuresAt(pc[r]) :
       NextAccount(r, Append(results[r], SyncResult(todo[r][1], e, 0, 0)))
  /\ UNCHANGED <<acctErr, retry, impl, bare, cancel, items, feed, store, accounts, cursorStore,
                 conn, cur, idx, err, snap, pre, pagesDone, applied, lastDone,
                 reapply, inPage, from>>

Next ==
  \E r \in Runs :
    \/ \E c \in Conns \cup {UnknownId} : PostConnectionsSync(r, c)
    \/ SyncAllConnections(r)
    \/ AccountsGet(r)
    \/ AccountUpsert(r)
    \/ AccountsFail(r)
    \/ ReadCursor(r)
    \/ TransactionsSync(r)
    \/ ApplyOp(r)
    \/ WriteCursor(r)
    \/ SyncFails(r)
    \/ PostTransactionsSync(r)
    \/ RouteTransactionsSync(r)
    \/ RouteTransaction(r)
    \/ RouteItemUpdate(r)
    \/ RouteFails(r)
    \/ \E c \in Conns : PostRefreshAccounts(r, c)
    \/ RefreshAccountsGet(r)
    \/ RefreshAccountUpsert(r)
    \/ \E c \in Conns : PostTokenExchange(r, c)
    \/ TokenExchange(r)
    \/ ItemUpsert(r)
    \/ AccountsTransaction(r)
    \/ OtherRouteFails(r)
    \/ Cancel(r)
    \/ PostSync(r)
    \/ \E txs \in {<<>>} \cup {TransactionsOf(a) : a \in Range(ProviderAccounts)} :
         GetTransactions(r, txs)
    \/ AccountUpdate(r)
    \/ AppFails(r)

Spec == Init /\ [][Next]_vars

\* The multi-connection runs.
SpecAll == InitAll /\ [][Next]_vars

\* ------------------------------------------------------------------
\* Properties.

InFlight(r) == pc[r] \notin {"idle", "done", "failed", "notFound", "answered"}
\* r is the only request that has arrived so far.
Alone(r) == \A q \in Runs \ {r} : pc[q] = "idle"
\* The page r fetched last, and the operations that apply it.
PageOf(r) == Resp(r).page
OpsOf(r) == PageOps(PageOf(r))
\* The step in which r finishes applying the page it fetched.
PageEnds(r) == pagesDone'[r] = pagesDone[r] + 1
\* The page whose application completed last.
LastPage == transactionsSync(feed[lastDone.c], lastDone.k).page
Ids(entries) == {entries[i].id : i \in 1..Len(entries)}
\* Since r fetched its page, the store changed by r's own operations only.
Undisturbed(r) ==
  store = ExecFrom(pre[r], SubSeq(OpsOf(r), 1, idx[r] - 1), 1).store

\* The Reconciler of the design: upserts keyed by the external id for added,
\* then for modified, then the removals.
RECURSIVE RefUpserts(_, _, _)
RefUpserts(s, entries, i) ==
  IF i > Len(entries) THEN s
  ELSE RefUpserts({row \in s : row.id # entries[i].id} \cup {entries[i]},
                  entries, i + 1)
RefPage(s, page) ==
  {row \in RefUpserts(RefUpserts(s, page.added, 1), page.modified, 1) :
     row.id \notin Range(page.removed)}
RECURSIVE RefFeed(_, _)
RefFeed(f, k) == IF k = 0 THEN {} ELSE RefPage(RefFeed(f, k - 1), f[k])

\* C1: while a page is being applied, and after the run stopped or failed in
\* it, the store holds all of the page's mutations or none of them.
C1_NoPartialPage ==
  \A r \in Runs :
    (Alone(r) /\ inPage[r]) =>
       \/ store = pre[r]
       \/ /\ ExecFrom(pre[r], OpsOf(r), 1).ok
          /\ store = ExecFrom(pre[r], OpsOf(r), 1).store

\* C2: the persisted cursor of a connection is none, the cursor it was synced
\* to before, or the next_cursor of a page that has been applied completely.
C2_CursorOnlyAfterApplied ==
  \A c \in Conns : cursorStore[c] = None \/ cursorStore[c] \in applied[c]

C1_Witness ==
  \E r \in Runs :
    /\ Alone(r) /\ inPage[r] /\ pc[r] = "failed"
    /\ err[r] \in {"AccountNotFound", "RecordNotFound"}
    /\ ExecOp(pre[r], OpsOf(r)[1]).ok
    /\ store = pre[r]

C2_Witness ==
  \E r \in Runs :
    /\ pc[r] = "done" /\ from[r] = None /\ pagesDone[r] = MaxPages
    /\ cursorStore[conn[r]] = cur[r] /\ cur[r] = MaxPages

\* C3: after each page a run has applied, the persisted cursor is that page's
\* next_cursor before the next page is fetched and when the run stops.
C3_CursorWrittenPerPage ==
  \A r \in Runs :
    (Alone(r) /\ pagesDone[r] > 0 /\ pc[r] \in {"fetch", "failed"}) =>
       cursorStore[conn[r]] = cur[r]

\* C4: a page is fetched only after the page before it was applied, and the
\* pages of one connection are never applied in parallel.
C4_PagesInOrderNeverParallel ==
  /\ \A r \in Runs :
       inPage[r] => (cur[r] = None \/ cur[r] \in applied[conn[r]])
  /\ \A r, q \in Runs :
       (r # q /\ conn[r] = conn[q] /\ InFlight(r) /\ InFlight(q)) =>
          ~(inPage[r] /\ inPage[q])

\* C5: when a page has been applied, no id of its removed list has a row,
\* whatever the page's added and modified lists did to that id.
C5_RemovedWins ==
  [][\A r \in Runs :
       PageEnds(r) =>
         \A i \in 1..Len(PageOf(r).removed) : ~HasRow(store', PageOf(r).removed[i])]_vars

C5_Witness ==
  /\ lastDone.k >= 0
  /\ store = lastDone.store
  /\ "t1" \in Ids(LastPage.added) \cap Range(LastPage.removed)
  /\ ~HasRow(store, "t1")

\* C6: when a page has been applied, with no other run writing meanwhile,
\* every id of its modified list that the page does not remove has exactly one
\* row, the modified entry, also when the page's added list names the id.
C6_ModifiedAfterAdded ==
  [][\A r \in Runs :
       (PageEnds(r) /\ Undisturbed(r)) =>
         \A i \in 1..Len(PageOf(r).modified) :
           LET m == PageOf(r).modified[i]
           IN  m.id \notin Range(PageOf(r).removed) =>
                 {row \in store' : row.id = m.id} = {m}]_vars

C6_Witness ==
  /\ lastDone.k >= 0
  /\ store = lastDone.store
  /\ Entry("t1", TRUE) \in Range(LastPage.added)
  /\ Entry("t1", FALSE) \in Range(LastPage.modified)
  /\ {row \in store : row.id = "t1"} = {Entry("t1", FALSE)}

\* C7: a run that applies the page applied last, to the store that application
\* left, succeeds and leaves the store as it was.
C7_Idempotent ==
  \A r \in Runs :
    reapply[r] =>
       /\ err[r] # "RecordNotFound"
       /\ (~inPage[r] /\ pc[r] # "failed") => store = pre[r]

\* C8: a page whose modified list names an id without a row is applied
\* without error.
C8_ModifiedIsUpsert ==
  \A r \in Runs :
    (Alone(r) /\ inPage[r] /\ pc[r] = "failed"
       /\ \E i \in 1..Len(PageOf(r).modified) :
            ~HasRow(pre[r], PageOf(r).modified[i].id)) =>
       err[r] # "RecordNotFound"

\* C9: a run from cursor none in which no provider or storage call fails, with
\* every account of the connection known locally, ends with the store the
\* Reconciler computes from the pages in order and the last page's next_cursor.
C9_EndToEnd ==
  \A r \in Runs :
    (/\ Alone(r) /\ impl \in Engines /\ from[r] = None
     /\ pc[r] \in {"done", "failed"} /\ err[r] \notin InjectedErrors
     /\ Range(ProviderAccounts) \subseteq accounts) =>
       /\ pc[r] = "done"
       /\ store = RefFeed(feed[conn[r]], Len(feed[conn[r]]))
       /\ cursorStore[conn[r]] = Len(feed[conn[r]])

\* C10: at most one sync run of a connection is in flight.
C10_OneRunPerConnection ==
  \A r, q \in Runs :
    (r # q /\ conn[r] = conn[q]) => ~(InFlight(r) /\ InFlight(q))

\* C11: a multi-connection run never ends with a connection of its list left
\* unstarted: the failure of one connection's run is that connection's result,
\* and the loop goes on.
C11_FailureIsolated ==
  \A r \in Runs : pc[r] = "failed" => Len(todo[r]) <= 1

\* The entries of the page r fetched last whose account has no local row.
Dangling(r) ==
  {e \in Range(PageOf(r).added) \cup Range(PageOf(r).modified) :
     account_id(e) \notin accounts}

C13_RefreshAndRetryOnce ==
  \A r \in Runs :
    ~(/\ pc[r] = "failed"
      /\ err[r] \in {"AccountNotFound", "ForeignKeyViolation"}
      /\ \E e \in Dangling(r) :
           account_id(e) \in Range(ProviderAccountsOf(conn[r])))

\* C14: a Failed run leaves the persisted cursor of its connection where the
\* run found it, and a later run of that connection that meets no provider or
\* storage failure ends with the store and cursor an uninterrupted run gives.
C14_FailedRunIsResumable ==
  \A r \in Runs :
    /\ (Alone(r) /\ impl \in Engines /\ pc[r] = "failed" /\ pagesDone[r] > 0)
         => cursorStore[conn[r]] = from[r]
    /\ (/\ retry[r] /\ impl \in Engines /\ pc[r] \in {"done", "failed"}
        /\ err[r] \notin InjectedErrors
        /\ Range(ProviderAccounts) \subseteq accounts)
         => /\ pc[r] = "done"
            /\ store = RefFeed(feed[conn[r]], Len(feed[conn[r]]))
            /\ cursorStore[conn[r]] = Len(feed[conn[r]])

\* C15: a page fetch that fails with a transient provider error is followed
\* by a fetch with the same cursor, with store and persisted cursor unchanged.
C15_TransientFetchRetried ==
  [][\A r \in Runs :
       (impl \in Engines /\ pc[r] = "fetch" /\ err'[r] \in TransientErrors) =>
          /\ pc'[r] = "fetch" /\ cur'[r] = cur[r]
          /\ store' = store /\ cursorStore' = cursorStore]_vars

\* C16: a transient provider error of the account refresh is retried or ends
\* the run as Failed; the run does not go on without the refresh.
C16_RetriesBounded ==
  \A r \in Runs :
    acctErr[r] \in TransientErrors => pc[r] \in {"accountsGet", "failed"}

\* C17: when the provider rejects the account refresh the run is Failed at
\* once and fetches no page.
C17_RejectedRefreshFails ==
  \A r \in Runs : acctErr[r] = "ProviderRejected" => pc[r] = "failed"

\* C18: a run that fails writing the cursor leaves the persisted cursor at
\* its previous value and the store ahead of it by at most one page.
C18_CursorWriteFailure ==
  \A r \in Runs :
    (Alone(r) /\ pc[r] = "failed" /\ err[r] = "CursorPersistError") =>
       /\ cursorStore[conn[r]] = from[r]
       /\ cur[r] - cursorStore[conn[r]] <= 1

\* C19: the store never holds two rows with the same external transaction
\* id, whatever runs, re-applied pages and failures came before.
C19_OneRowPerTransactionId ==
  \A x, y \in store : x.id = y.id => x = y

C19_Witness ==
  /\ \A r \in Runs : pc[r] = "done" /\ pagesDone[r] > 0 /\ from[r] = None
  /\ store # {}

\* C20: no step removes an Account row, and the rows change only by the
\* upsert of one account of the provider's answer during the account refresh.
C20_AccountsNeverDeleted ==
  [][/\ accounts \subseteq accounts'
     /\ accounts' # accounts =>
          \E r \in Runs :
            /\ pc[r] \in {"accountUpsert", "refreshUpsert", "accountsTransaction"}
            /\ accounts' \subseteq accounts \cup Range(ProviderAccountsOf(conn[r]))]_vars

C20_Witness ==
  \E r, q \in Runs :
    /\ pc[q] = "done" /\ pagesDone[q] > 0
    /\ pc[r] = "accountUpsert" /\ idx[r] = 2
    /\ ProviderAccountsOf(conn[r])[1] \in accounts

\* The entries the provider delivers for the connections, added or modified.
Delivered ==
  UNION {UNION {Range(feed[c][k].added) \cup Range(feed[c][k].modified) :
                  k \in 1..Len(feed[c])} : c \in Conns}

\* C21: every stored row carries the amount and the currency code of an entry
\* the provider delivered for its transaction id.
C21_AmountAndCurrencyVerbatim ==
  \A row \in store :
    \E e \in Delivered :
      /\ e.id = row.id
      /\ e.amount = row.amount
      /\ e.iso_currency_code = row.iso_currency_code

\* The connections r has started to sync.
Started(r) ==
  {items[i] : i \in 1..(Len(items) - Len(todo[r])
                          + IF pc[r] = "failed" THEN 1 ELSE 0)}

\* C22: a run that has ended answers with one result record for each
\* connection it started to sync, also when it failed.
C22_ResultPerConnection ==
  \A r \in Runs :
    (impl \in Engines /\ pc[r] \in {"done", "failed"}) =>
       Len(results[r]) = Cardinality(Started(r))

\* The step in which the provider answers the fetch r awaits.
FetchStep(r) ==
  /\ pc[r] = "fetch"
  /\ pc'[r] \notin {"fetch", "failed"} \/ pagesDone'[r] # pagesDone[r]

\* C24: the first fetch of a run is made with the cursor that is persisted
\* for the connection at that moment (none: no cursor, the whole stream).
C24_FirstFetchFromPersistedCursor ==
  [][\A r \in Runs :
       (impl \in Engines /\ FetchStep(r) /\ pagesDone[r] = 0) =>
          cur[r] = cursorStore[conn[r]]]_vars

\* C25: when a page has been applied the loop goes on to a fetch exactly if
\* the page said has_more, and that fetch uses the page's next_cursor.
C25_CursorChain ==
  [][\A r \in Runs :
       (impl \in Engines /\ PageEnds(r)) =>
          /\ (pc'[r] = "fetch") <=> Resp(r).has_more
          /\ pc'[r] = "fetch" => cur'[r] = Resp(r).next_cursor]_vars

C25_Witness ==
  \E r \in Runs :
    /\ pagesDone[r] = 2 /\ from[r] = None /\ cur[r] = 2
    /\ pc[r] \in {"writeCursor", "itemUpdate"}

\* C27: the page loop never moves its cursor back, to an earlier position or
\* to none, so it cannot fetch the same pages again and again.
C27_CursorNeverMovesBack ==
  [][\A r \in Runs :
       (impl \in Engines /\ PageEnds(r)) => cur'[r] >= cur[r]]_vars

\* C28: a persisted cursor that is not none is never overwritten with none.
C28_CursorNeverBackToNone ==
  [][\A c \in Conns :
       cursorStore[c] # None => cursorStore'[c] # None]_vars

\* C23: once the caller has cancelled a run, the run fetches no further page.
C23_NoFetchAfterCancel ==
  [][\A r \in Runs : cancel[r] => ~FetchStep(r)]_vars

\* C29: a sync request for an id without a Connection row is answered at
\* once: it awaits no provider call, stays answered, and the step that answers
\* it changes no account, transaction or cursor.
C29_UnknownConnectionNoEffect ==
  /\ [](\A r \in Runs : conn[r] \notin Conns => pc[r] = "notFound")
  /\ [][\A r \in Runs :
          (pc[r] = "idle" /\ pc'[r] # "idle" /\ conn'[r] \notin Conns) =>
             /\ store' = store /\ accounts' = accounts
             /\ cursorStore' = cursorStore]_vars

C29_Witness ==
  \E r, q \in Runs :
    /\ conn[r] = UnknownId /\ pc[r] = "notFound"
    /\ pc[q] = "done" /\ pagesDone[q] > 0

\* C26: the persisted cursor of a connection changes only in the cursor write
\* of a sync run that is working on that connection.
C26_CursorWrittenByOwnRunOnly ==
  [][\A c \in Conns :
       cursorStore'[c] # cursorStore[c] =>
          \E r \in Runs :
            /\ conn[r] = c /\ pc[r] \in {"writeCursor", "itemUpdate"}
            /\ pc'[r] # pc[r]]_vars

C26_Witness ==
  \E r, q \in Runs :
    /\ pc[r] = "answered" /\ err[r] = "none"
    /\ pc[q] = "done" /\ \A c \in Conns : cursorStore[c] # None

\* C30: when the per-account sync has answered, results holds exactly one
\* entry for each account selected for the sync, in their order, and no entry
\* counts more synced than total transactions.
C30_OneResultPerAccount ==
  \A r \in Runs :
    (impl = "app" /\ pc[r] = "done") =>
       LET accountsToSync == SelectSeq(ProviderAccounts, LAMBDA a : a \in accounts)
       IN  /\ Len(results[r]) = Len(accountsToSync)
           /\ \A i \in 1..Len(results[r]) :
                /\ i <= Len(accountsToSync) => results[r][i].accountId = accountsToSync[i]
                /\ results[r][i].syncedTransactions <= results[r][i].totalTransactions

====
